---- MODULE Spec2Model ----
(***************************************************************************)
(* Model of the polar-curve synthesis code of scripts/generate_polar.py.   *)
(*                                                                         *)
(* Numbers.  The Python code computes in floating point; the model         *)
(* computes the same expressions exactly, in integers:                     *)
(*   - a speed is an integer count of 1/Knot knots, and every input speed  *)
(*     is a multiple of Knot/10, so that the divisions the code performs   *)
(*     (by 100 in percentile, by 2 in 1.5*iqr, by the window length in     *)
(*     smooth_curve, by an angle difference in interpolate_speed) come out *)
(*     even and \div is the exact quotient;                                *)
(*   - an angle in degrees is an integer; Sample.theta (radians in the     *)
(*     code) is an integer count of half degrees of arc (pi/360 rad), so   *)
(*     that math.radians doubles and math.degrees halves;                  *)
(*   - a percentile request pct is an integer number of percent.           *)
(* Rounding error of the floating-point operations is not modelled.        *)
(***************************************************************************)
EXTENDS Integers, Sequences, FiniteSets, TLC

VARIABLES pc,
          \* percentile / remove_outliers: the arguments and the returned values
          values, pct, result, filtered,
          \* aggregated_curve: its arguments, its locals and the returned pair
          samples, bin_size, min_samples, bins, curve_points, smoothed_points, curve,
          \* interpolate_speed: its arguments and the returned Optional[float]
          points, target, speed,
          \* main: the log entry of the point being read, the number of points read,
          \* collect_sailing_samples' result and make_plot's band_curves
          entry, n_points, samples_by_band, band_curves,
          \* smooth_curve: its window argument and the returned list
          window_arg, smooth_result,
          \* merge_course_changes.py: the list of log entries main() loaded and the
          \* list merge_entries returned
          log_data, merge_result

statsVars == <<values, result, filtered>>
curveVars == <<samples, bin_size, min_samples, bins, curve_points, smoothed_points, curve>>
interpVars == <<points, target, speed>>
collectVars == <<entry, n_points, samples_by_band, band_curves>>
smoothVars == <<window_arg, smooth_result>>
logVars == <<log_data, merge_result>>
vars == <<pc, pct, statsVars, curveVars, interpVars, collectVars, smoothVars, logVars>>

(***************************************************************************)
(* Units and small helpers.                                                *)
(***************************************************************************)
Knot == 10 * 100 * 420

radians(deg) == 2 * deg

degrees(theta) == theta \div 2

Max(a, b) == IF a >= b THEN a ELSE b

Min(a, b) == IF a <= b THEN a ELSE b

RECURSIVE SeqsUpTo(_, _)
SeqsUpTo(S, n) ==
    IF n = 0 THEN {<<>>}
    ELSE LET shorter == SeqsUpTo(S, n - 1)
         IN  shorter \cup {Append(s, x) : s \in {t \in shorter : Len(t) = n - 1}, x \in S}

RECURSIVE SumSeq(_)
SumSeq(s) == IF s = <<>> THEN 0 ELSE Head(s) + SumSeq(Tail(s))

(***************************************************************************)
(* sorted(): Python's ascending sort of a list of numbers.                 *)
(***************************************************************************)
RECURSIVE InsertSorted(_, _)
InsertSorted(x, s) ==
    IF s = <<>> THEN <<x>>
    ELSE IF x <= Head(s) THEN <<x>> \o s
    ELSE <<Head(s)>> \o InsertSorted(x, Tail(s))

RECURSIVE sorted(_)
sorted(s) == IF s = <<>> THEN <<>> ELSE InsertSorted(Head(s), sorted(Tail(s)))

(***************************************************************************)
(* percentile(values, pct), for a non-empty list (the empty list raises    *)
(* ValueError: see PercentileRaises).  rank is held as rank100 = 100*rank. *)
(***************************************************************************)
PercentileFloorOnly(vals, p) ==
    LET ordered == sorted(vals)
        clamped_pct == Max(0, Min(100, p))
        rank100 == (Len(ordered) - 1) * clamped_pct
    IN  ordered[(rank100 \div 100) + 1]

percentile(vals, p) ==
    LET ordered == sorted(vals)
        clamped_pct == Max(0, Min(100, p))
        rank100 == (Len(ordered) - 1) * clamped_pct
        lower == rank100 \div 100
        upper == (rank100 + 99) \div 100
        lower_value == ordered[lower + 1]
        upper_value == ordered[upper + 1]
        fraction100 == rank100 - 100 * lower
    IN  IF Len(ordered) = 1 THEN ordered[1]
        ELSE IF lower = upper THEN ordered[lower + 1]
        ELSE lower_value + ((upper_value - lower_value) * fraction100) \div 100

(***************************************************************************)
(* remove_outliers(values): the interquartile-range filter.                *)
(***************************************************************************)
RemoveOutliersWideFence(vals) ==
    LET data == vals
        q1 == percentile(data, 25)
        q3 == percentile(data, 75)
        iqr == q3 - q1
        lower == q1 - 3 * iqr
        upper == q3 + 3 * iqr
    IN  IF Len(data) < 4 THEN data
        ELSE IF iqr <= 0 THEN SelectSeq(data, LAMBDA v : q1 <= v /\ v <= q3)
        ELSE SelectSeq(data, LAMBDA v : lower <= v /\ v <= upper)

remove_outliers(vals) ==
    LET data == vals
        q1 == percentile(data, 25)
        q3 == percentile(data, 75)
        iqr == q3 - q1
        lower == q1 - (3 * iqr) \div 2
        upper == q3 + (3 * iqr) \div 2
    IN  IF Len(data) < 4 THEN data
        ELSE IF iqr <= 0 THEN SelectSeq(data, LAMBDA v : q1 <= v /\ v <= q3)
        ELSE SelectSeq(data, LAMBDA v : lower <= v /\ v <= upper)

Sample(theta, stw) == [theta |-> theta, stw |-> stw]

(***************************************************************************)
(* bucket_by_angle(samples, bin_size): the speeds of the samples, grouped  *)
(* by bucket center.  With theta = 2 * angle_deg, (theta + bin_size) % 720 *)
(* is twice (angle_deg + bin_size / 2.0) % 360.                            *)
(***************************************************************************)
BucketCenterTruncating(theta, bin) ==
    ((theta % 720) \div (2 * bin)) * bin

bucket_center(theta, bin) ==
    (((theta + bin) % 720) \div (2 * bin)) * bin

bucket_by_angle(smpls, bin) ==
    LET keys == {bucket_center(smpls[i].theta, bin) : i \in DOMAIN smpls}
        members(k) == SelectSeq(smpls, LAMBDA s : bucket_center(s.theta, bin) = k)
    IN  [k \in keys |-> [i \in DOMAIN members(k) |-> members(k)[i].stw]]

(***************************************************************************)
(* smooth_curve(points, window).  A point is the pair <<angle, speed>>.    *)
(***************************************************************************)
SmoothCurveShortWindow(pts, window) ==
    LET n == Len(pts)
        smoothed(idx) ==
            LET start == Max(0, idx - window)
                end == Min(n, idx + window)
                window_speeds == [j \in 1 .. (end - start) |-> pts[start + j][2]]
            IN  <<pts[idx + 1][1], SumSeq(window_speeds) \div Len(window_speeds)>>
    IN  IF n <= 3 \/ window <= 0 THEN pts
        ELSE [i \in 1 .. n |->
                IF i - 1 = 0 \/ i - 1 = n - 1 THEN pts[i] ELSE smoothed(i - 1)]

smooth_curve(pts, window) ==
    LET n == Len(pts)
        smoothed(idx) ==
            LET start == Max(0, idx - window)
                end == Min(n, idx + window + 1)
                window_speeds == [j \in 1 .. (end - start) |-> pts[start + j][2]]
            IN  <<pts[idx + 1][1], SumSeq(window_speeds) \div Len(window_speeds)>>
    IN  IF n <= 3 \/ window <= 0 THEN pts
        ELSE [i \in 1 .. n |->
                IF i - 1 = 0 \/ i - 1 = n - 1 THEN pts[i] ELSE smoothed(i - 1)]

(***************************************************************************)
(* aggregated_curve, in the three stages its code has: the loop over the   *)
(* sorted bucket keys (aggregate_buckets), the anchoring of both ends      *)
(* (anchor_curve) and the smoothing.                                       *)
(***************************************************************************)
RECURSIVE SortedKeys(_)
SortedKeys(S) ==
    IF S = {} THEN <<>>
    ELSE LET m == CHOOSE x \in S : \A y \in S : x <= y
         IN  <<m>> \o SortedKeys(S \ {m})

RECURSIVE InsertByAngle(_, _)
InsertByAngle(p, s) ==
    IF s = <<>> THEN <<p>>
    ELSE IF p[1] < Head(s)[1] THEN <<p>> \o s
    ELSE <<Head(s)>> \o InsertByAngle(p, Tail(s))

RECURSIVE sort_by_angle(_)
sort_by_angle(s) ==
    IF s = <<>> THEN <<>>
    ELSE InsertByAngle(s[Len(s)], sort_by_angle(SubSeq(s, 1, Len(s) - 1)))

RECURSIVE AggregateKeys(_, _, _, _)
AggregateKeys(keys, bns, p, min) ==
    IF keys = <<>> THEN <<>>
    ELSE LET angle_deg == Head(keys)
             filtered_values == remove_outliers(bns[angle_deg])
             rest == AggregateKeys(Tail(keys), bns, p, min)
         IN  IF Len(filtered_values) < min THEN rest
             ELSE <<<<angle_deg, percentile(filtered_values, p)>>>> \o rest

RECURSIVE AggregateKeysRawCount(_, _, _, _)
AggregateKeysRawCount(keys, bns, p, min) ==
    IF keys = <<>> THEN <<>>
    ELSE LET angle_deg == Head(keys)
             rest == AggregateKeysRawCount(Tail(keys), bns, p, min)
         IN  IF Len(bns[angle_deg]) < min THEN rest
             ELSE <<<<angle_deg, percentile(remove_outliers(bns[angle_deg]), p)>>>> \o rest

AggregateBucketsRawCount(bns, p, min) ==
    AggregateKeysRawCount(SortedKeys(DOMAIN bns), bns, p, min)

aggregate_buckets(bns, p, min) == AggregateKeys(SortedKeys(DOMAIN bns), bns, p, min)

ZeroCurve == <<<<0, 0>>, <<360, 0>>>>

AnchorCurveAlwaysInsert(pts) ==
    IF pts = <<>> THEN ZeroCurve
    ELSE <<<<0, 0>>>> \o sort_by_angle(pts) \o <<<<360, 0>>>>

anchor_curve(pts) ==
    IF pts = <<>> THEN ZeroCurve
    ELSE LET srt == sort_by_angle(pts)
             low == IF srt[1][1] > 0 THEN <<<<0, 0>>>> \o srt
                    ELSE [srt EXCEPT ![1] = <<0, 0>>]
         IN  IF low[Len(low)][1] < 360 THEN Append(low, <<360, 0>>)
             ELSE [low EXCEPT ![Len(low)] = <<360, 0>>]

DefaultWindow == 2

returned_curve(pts) ==
    <<[i \in DOMAIN pts |-> radians(pts[i][1])],
      [i \in DOMAIN pts |-> pts[i][2]]>>

aggregated_curve(smpls, bin, p, min) ==
    returned_curve(smooth_curve(
        anchor_curve(aggregate_buckets(bucket_by_angle(smpls, bin), p, min)),
        DefaultWindow))

(***************************************************************************)
(* interpolate_speed(points, target).  The Optional[float] it returns is   *)
(* None or Some(speed).  Angles are whole degrees here, so math.isclose    *)
(* with abs_tol 1e-6 is equality.                                          *)
(***************************************************************************)
None == <<>>

Some(x) == <<x>>

isclose(a, b) == a = b

\* bisect_left on an ascending list: the number of entries below the target.
bisect_left(angles, x) == Cardinality({i \in DOMAIN angles : angles[i] < x})

ExtrapolationTolerance == 10

InterpolateStrictTolerance(pts, tgt) ==
    LET n == Len(pts)
        angles == [i \in DOMAIN pts |-> pts[i][1]]
        idx == bisect_left(angles, tgt)
        left == pts[idx]
        right == pts[idx + 1]
    IN  IF pts = <<>> THEN None
        ELSE IF idx < n /\ isclose(angles[idx + 1], tgt) THEN Some(pts[idx + 1][2])
        ELSE IF idx = 0 THEN
            IF pts[1][1] >= tgt /\ pts[1][1] - tgt < ExtrapolationTolerance
            THEN Some(pts[1][2]) ELSE None
        ELSE IF idx = n THEN
            IF tgt >= pts[n][1] /\ tgt - pts[n][1] < ExtrapolationTolerance
            THEN Some(pts[n][2]) ELSE None
        ELSE IF isclose(right[1], left[1]) THEN Some(left[2])
        ELSE Some(left[2] + ((tgt - left[1]) * (right[2] - left[2])) \div (right[1] - left[1]))

InterpolateNoExtrapolation(pts, tgt) ==
    LET n == Len(pts)
        angles == [i \in DOMAIN pts |-> pts[i][1]]
        idx == bisect_left(angles, tgt)
        left == pts[idx]
        right == pts[idx + 1]
    IN  IF pts = <<>> THEN None
        ELSE IF idx < n /\ isclose(angles[idx + 1], tgt) THEN Some(pts[idx + 1][2])
        ELSE IF idx = 0 \/ idx = n THEN None
        ELSE IF isclose(right[1], left[1]) THEN Some(left[2])
        ELSE Some(left[2] + ((tgt - left[1]) * (right[2] - left[2])) \div (right[1] - left[1]))

interpolate_speed(pts, tgt) ==
    LET n == Len(pts)
        angles == [i \in DOMAIN pts |-> pts[i][1]]
        idx == bisect_left(angles, tgt)
        left == pts[idx]
        right == pts[idx + 1]
    IN  IF pts = <<>> THEN None
        ELSE IF idx < n /\ isclose(angles[idx + 1], tgt) THEN Some(pts[idx + 1][2])
        ELSE IF idx = 0 THEN
            IF pts[1][1] >= tgt /\ pts[1][1] - tgt <= ExtrapolationTolerance
            THEN Some(pts[1][2]) ELSE None
        ELSE IF idx = n THEN
            IF tgt >= pts[n][1] /\ tgt - pts[n][1] <= ExtrapolationTolerance
            THEN Some(pts[n][2]) ELSE None
        ELSE IF isclose(right[1], left[1]) THEN Some(left[2])
        ELSE Some(left[2] + ((tgt - left[1]) * (right[2] - left[2])) \div (right[1] - left[1]))

(***************************************************************************)
(* The wind-speed bands, true_wind_angle and the body of the loop of       *)
(* collect_sailing_samples over a voyage's points.  A log entry is a       *)
(* record: missing holds the names of the fields that are absent (None;    *)
(* startTime and endTime are fields of the entry's voyage),                *)
(* since_start and until_end are the seconds from the voyage's start to    *)
(* the entry and from the entry to the voyage's end.  Wind speed and sog   *)
(* are speeds (multiples of Knot/10), course and wind_dir whole degrees.   *)
(***************************************************************************)
WIND_BINS ==
    <<[label |-> "2.5-7.5 kn", lower |-> (25 * Knot) \div 10, upper |-> Some((75 * Knot) \div 10)],
      [label |-> "7.5-12.5 kn", lower |-> (75 * Knot) \div 10, upper |-> Some((125 * Knot) \div 10)],
      [label |-> "12.5-17.5 kn", lower |-> (125 * Knot) \div 10, upper |-> Some((175 * Knot) \div 10)],
      [label |-> ">17.5 kn", lower |-> (175 * Knot) \div 10, upper |-> None]>>

Labels == {WIND_BINS[i].label : i \in DOMAIN WIND_BINS}

RECURSIVE FirstBand(_, _)
FirstBand(bands, spd) ==
    IF bands = <<>> THEN None
    ELSE LET b == Head(bands)
         IN  IF b.upper = None
             THEN IF spd >= b.lower THEN Some(b.label) ELSE FirstBand(Tail(bands), spd)
             ELSE IF b.lower <= spd /\ spd < b.upper[1] THEN Some(b.label)
                  ELSE FirstBand(Tail(bands), spd)

categorize_wind_speed(spd) == FirstBand(WIND_BINS, spd)

true_wind_angle(course, wind_dir) ==
    LET angle == (wind_dir - course) % 360
    IN  IF angle > 180 THEN 360 - angle ELSE angle

exclusion_seconds == 3600

MinSailingAngle == 30

MaxMirroredAngle == 330

CollectPointMirrorsAlways(sbb, e) ==
    LET band_label == categorize_wind_speed(e.wind_speed)
        angle_deg == true_wind_angle(e.course, e.wind_dir)
        primary == Sample(radians(angle_deg), e.stw)
        mirrored == Sample(radians((360 - angle_deg) % 360), e.stw)
    IN  IF e.missing \cap {"startTime", "endTime"} # {} THEN sbb
        ELSE IF "datetime" \in e.missing THEN sbb
        ELSE IF e.since_start < exclusion_seconds THEN sbb
        ELSE IF e.until_end < exclusion_seconds THEN sbb
        ELSE IF e.missing \cap {"stw", "sog", "wind_speed", "wind_dir", "course"} # {} THEN sbb
        ELSE IF e.wind_speed <= 0 THEN sbb
        ELSE IF e.sog > (8 * e.wind_speed) \div 10 THEN sbb
        ELSE IF band_label = None THEN sbb
        ELSE IF angle_deg < MinSailingAngle THEN sbb
        ELSE [sbb EXCEPT ![band_label[1]] = Append(Append(@, primary), mirrored)]

collect_point(sbb, e) ==
    LET band_label == categorize_wind_speed(e.wind_speed)
        angle_deg == true_wind_angle(e.course, e.wind_dir)
        primary == Sample(radians(angle_deg), e.stw)
        mirrored_angle == (360 - angle_deg) % 360
        mirrored == Sample(radians(mirrored_angle), e.stw)
    IN  IF e.missing \cap {"startTime", "endTime"} # {} THEN sbb
        ELSE IF "datetime" \in e.missing THEN sbb
        ELSE IF e.since_start < exclusion_seconds THEN sbb
        ELSE IF e.until_end < exclusion_seconds THEN sbb
        ELSE IF e.missing \cap {"stw", "sog", "wind_speed", "wind_dir", "course"} # {} THEN sbb
        ELSE IF e.wind_speed <= 0 THEN sbb
        ELSE IF e.sog > (8 * e.wind_speed) \div 10 THEN sbb
        ELSE IF band_label = None THEN sbb
        ELSE IF angle_deg < MinSailingAngle THEN sbb
        ELSE IF 0 < angle_deg /\ angle_deg < 180 /\ mirrored_angle <= MaxMirroredAngle
             THEN [sbb EXCEPT ![band_label[1]] = Append(Append(@, primary), mirrored)]
             ELSE [sbb EXCEPT ![band_label[1]] = Append(@, primary)]

(***************************************************************************)
(* make_plot's curve of one band (lines 339-347): an empty band is given   *)
(* the empty curve and aggregated_curve is not called for it.              *)
(***************************************************************************)
EmptyCurve == <<<<>>, <<>>>>

BandCurveAlwaysAggregates(smpls, bin, p, min) == aggregated_curve(smpls, bin, p, min)

band_curve(smpls, bin, p, min) ==
    IF smpls = <<>> THEN EmptyCurve ELSE aggregated_curve(smpls, bin, p, min)

(***************************************************************************)
(* merge_course_changes.py.  A log entry is a record of Optional fields    *)
(* (None: the key is absent):                                              *)
(*   text      [kind, from, to]: kind "course" is a text of the form       *)
(*             "Course change: X -> Y", with X and Y in units of 1/Deg     *)
(*             degree; kind "max wind" a text the maxima pattern matches;  *)
(*             kind "other" any other text; kind "none" no text;           *)
(*   position  [longitude, latitude, source]: whole degrees, None when the *)
(*             key is missing or not a number; source stands for the keys  *)
(*             of the position other than longitude and latitude;          *)
(*   speed     [sog]; maxSpeed, maxWind, maxHeel; wind [speed, direction]. *)
(* An item of the list that is not a mapping is treated by both functions  *)
(* like the entry with no key at all.  circular_mean is kept               *)
(* uninterpreted: a wind direction is a term, <<d>> for the direction d of *)
(* an input entry and the bracketed list of its arguments for a mean.      *)
(***************************************************************************)
Deg == 100 * 100

RECURSIVE Flatten(_)
Flatten(terms) == IF terms = <<>> THEN <<>> ELSE Head(terms) \o Flatten(Tail(terms))

circular_mean(angles) == <<-1>> \o Flatten(angles) \o <<-2>>

\* f"{x:g}": six significant digits (for 0 <= x < 1000 degrees with at most four
\* decimals: a value of 100 degrees or more loses its fourth decimal)
format_g(x) == IF x >= 100 * Deg THEN ((x + 5) \div 10) * 10 ELSE x

parse_course_change(e) ==
    IF e.text.kind = "course" THEN Some(<<e.text.from, e.text.to>>) ELSE None

get_sog(e) ==
    IF e.speed # None /\ e.speed[1].sog # None THEN e.speed[1].sog ELSE None

RECURSIVE MaxOfSeq(_)
MaxOfSeq(s) == IF Len(s) = 1 THEN s[1] ELSE Max(Head(s), MaxOfSeq(Tail(s)))

RECURSIVE Present(_)
Present(opts) ==
    IF opts = <<>> THEN <<>>
    ELSE (IF Head(opts) = None THEN <<>> ELSE <<Head(opts)[1]>>) \o Present(Tail(opts))

EmptyWind == [speed |-> None, direction |-> None]

WindOf(e) == IF e.wind = None THEN EmptyWind ELSE e.wind[1]

\* lines 118-123: the wind of the combined entry
combined_wind(group) ==
    LET wind_speeds == Present([i \in DOMAIN group |-> WindOf(group[i]).speed])
        wind_dirs == Present([i \in DOMAIN group |-> WindOf(group[i]).direction])
        base == WindOf(group[1])
    IN  IF wind_speeds = <<>> /\ wind_dirs = <<>> THEN group[1].wind
        ELSE Some([speed |-> IF wind_speeds # <<>>
                             THEN Some(SumSeq(wind_speeds) \div Len(wind_speeds))
                             ELSE base.speed,
                   direction |-> IF wind_dirs # <<>>
                                 THEN Some(circular_mean(wind_dirs))
                                 ELSE base.direction])

CombineKeepsFirstPosition(group) ==
    LET from_course == parse_course_change(group[1])[1][1]
        final_to == parse_course_change(group[Len(group)])[1][2]
        last == group[Len(group)]
        max_speeds == Present([i \in DOMAIN group |-> group[i].maxSpeed])
        max_winds == Present([i \in DOMAIN group |-> group[i].maxWind])
    IN  [group[1] EXCEPT
            !.text = [kind |-> "course", from |-> format_g(from_course), to |-> format_g(final_to)],
            !.speed = IF last.speed # None THEN last.speed ELSE @,
            !.maxSpeed = IF max_speeds # <<>> THEN Some(MaxOfSeq(max_speeds)) ELSE @,
            !.maxWind = IF max_winds # <<>> THEN Some(MaxOfSeq(max_winds)) ELSE @,
            !.wind = combined_wind(group)]

\* lines 85-123: the entry that replaces a group of two or more entries
combine(group) ==
    LET from_course == parse_course_change(group[1])[1][1]
        final_to == parse_course_change(group[Len(group)])[1][2]
        last == group[Len(group)]
        max_speeds == Present([i \in DOMAIN group |-> group[i].maxSpeed])
        max_winds == Present([i \in DOMAIN group |-> group[i].maxWind])
    IN  [group[1] EXCEPT
            !.text = [kind |-> "course", from |-> format_g(from_course), to |-> format_g(final_to)],
            !.position = IF last.position # None THEN last.position ELSE @,
            !.speed = IF last.speed # None THEN last.speed ELSE @,
            !.maxSpeed = IF max_speeds # <<>> THEN Some(MaxOfSeq(max_speeds)) ELSE @,
            !.maxWind = IF max_winds # <<>> THEN Some(MaxOfSeq(max_winds)) ELSE @,
            !.wind = combined_wind(group)]

\* lines 73-80: the index after the last entry of the group that starts before i
RECURSIVE group_end(_, _, _)
group_end(es, i, from_course) ==
    IF i > Len(es) THEN i
    ELSE LET next_parsed == parse_course_change(es[i])
         IN  IF next_parsed # None /\ next_parsed[1][1] = from_course
             THEN group_end(es, i + 1, from_course)
             ELSE i

\* lines 62-127: the list merged
RECURSIVE merge_loop(_, _)
merge_loop(es, i) ==
    IF i > Len(es) THEN <<>>
    ELSE LET parsed == parse_course_change(es[i])
         IN  IF parsed = None THEN <<es[i]>> \o merge_loop(es, i + 1)
             ELSE LET j == group_end(es, i + 1, parsed[1][1])
                      group == SubSeq(es, i, j - 1)
                  IN  <<IF Len(group) = 1 THEN es[i] ELSE combine(group)>>
                          \o merge_loop(es, j)

LowSpeed == (6 * Knot) \div 10

\* lines 129-135
drop_low_speed(mrg) ==
    SelectSeq(mrg, LAMBDA e :
        ~(parse_course_change(e) # None /\ get_sog(e) # None /\ get_sog(e)[1] < LowSpeed))

MergeEntriesKeepsLowSpeed(es) == merge_loop(es, 1)

merge_entries(es) == drop_low_speed(merge_loop(es, 1))

\* combined = group[0].copy() is a shallow copy: combined["wind"] is the wind
\* mapping of the group's first entry, which lines 119-123 therefore change too.
RECURSIVE entries_after_merge(_, _)
entries_after_merge(es, i) ==
    IF i > Len(es) THEN es
    ELSE LET parsed == parse_course_change(es[i])
         IN  IF parsed = None THEN entries_after_merge(es, i + 1)
             ELSE LET j == group_end(es, i + 1, parsed[1][1])
                      group == SubSeq(es, i, j - 1)
                  IN  IF Len(group) >= 2 /\ es[i].wind # None
                      THEN entries_after_merge([es EXCEPT ![i].wind = combined_wind(group)], j)
                      ELSE entries_after_merge(es, j)

(***************************************************************************)
(* fix_maxima_positions and its two predicates.                            *)
(***************************************************************************)
_is_good_position_value(pos) ==
    /\ pos # None
    /\ pos[1].longitude # None
    /\ pos[1].latitude # None
    /\ -180 <= pos[1].longitude[1] /\ pos[1].longitude[1] <= 180
    /\ -90 <= pos[1].latitude[1] /\ pos[1].latitude[1] <= 90
    /\ ~(pos[1].longitude[1] = 0 /\ pos[1].latitude[1] = 0)

_is_maxima_entry(e) ==
    \/ e.maxWind # None
    \/ e.maxHeel # None
    \/ e.maxSpeed # None
    \/ e.text.kind = "max wind"

\* lines 180-183: the copy holds the two coordinates and nothing else
good_pos_copy(pos) ==
    Some([longitude |-> pos[1].longitude, latitude |-> pos[1].latitude, source |-> None])

\* lines 174-187, from entry i on, with last_good_pos as it stands there
RECURSIVE FixFromAnyEntry(_, _, _)
FixFromAnyEntry(es, i, last_good_pos) ==
    IF i > Len(es) THEN es
    ELSE LET e == es[i]
             pos == e.position
             is_max == _is_maxima_entry(e)
         IN  IF _is_good_position_value(pos)
             THEN FixFromAnyEntry(es, i + 1, good_pos_copy(pos))
             ELSE IF is_max /\ last_good_pos # None
             THEN FixFromAnyEntry([es EXCEPT ![i].position = last_good_pos], i + 1, last_good_pos)
             ELSE FixFromAnyEntry(es, i + 1, last_good_pos)

RECURSIVE fix_from(_, _, _)
fix_from(es, i, last_good_pos) ==
    IF i > Len(es) THEN es
    ELSE LET e == es[i]
             pos == e.position
             is_max == _is_maxima_entry(e)
         IN  IF ~is_max /\ _is_good_position_value(pos)
             THEN fix_from(es, i + 1, good_pos_copy(pos))
             ELSE IF is_max /\ last_good_pos # None /\ ~_is_good_position_value(pos)
             THEN fix_from([es EXCEPT ![i].position = last_good_pos], i + 1, last_good_pos)
             ELSE fix_from(es, i + 1, last_good_pos)

FixMaximaFromAnyEntry(es) == FixFromAnyEntry(es, 1, None)

fix_maxima_positions(es) == fix_from(es, 1, None)

(***************************************************************************)
(* Idle values of the variables a specification does not use.              *)
(***************************************************************************)
EmptyBins == [k \in {} |-> <<>>]

StatsIdle ==
    /\ values = <<>>
    /\ result = 0
    /\ filtered = <<>>

CurveIdle ==
    /\ samples = <<>>
    /\ bin_size = 0
    /\ min_samples = 0
    /\ bins = EmptyBins
    /\ curve_points = <<>>
    /\ smoothed_points = <<>>
    /\ curve = <<>>

NoEntry ==
    [missing |-> {}, since_start |-> 0, until_end |-> 0, stw |-> 0, sog |-> 0,
     wind_speed |-> 0, wind_dir |-> 0, course |-> 0]

NoCurves == [l \in Labels |-> EmptyCurve]

CollectIdle ==
    /\ entry = NoEntry
    /\ n_points = 0
    /\ samples_by_band = [l \in Labels |-> <<>>]
    /\ band_curves = NoCurves

InterpIdle ==
    /\ points = <<>>
    /\ target = 0
    /\ speed = None

SmoothIdle ==
    /\ window_arg = 0
    /\ smooth_result = <<>>

LogIdle ==
    /\ log_data = <<>>
    /\ merge_result = <<>>

(***************************************************************************)
(* Specification SpecStats: one call of percentile or of remove_outliers   *)
(* on a drawn list of speeds.                                              *)
(***************************************************************************)
MaxLen == 5

MaxSpeed == 3

Speeds == {k * Knot : k \in 0 .. MaxSpeed}

Pcts == {-10, 0, 25, 50, 80, 100, 130}

InitStats ==
    /\ pc = "start"
    /\ values \in SeqsUpTo(Speeds, MaxLen)
    /\ pct \in Pcts
    /\ result = 0
    /\ filtered = <<>>
    /\ CurveIdle
    /\ InterpIdle
    /\ SmoothIdle
    /\ LogIdle
    /\ CollectIdle

PercentileReturns ==
    /\ pc = "start"
    /\ values # <<>>
    /\ result' = percentile(values, pct)
    /\ pc' = "percentile_done"
    /\ UNCHANGED <<smoothVars, logVars, values, pct, filtered, curveVars, interpVars, collectVars>>

PercentileRaises ==
    /\ pc = "start"
    /\ values = <<>>
    /\ pc' = "ValueError"
    /\ UNCHANGED <<smoothVars, logVars, pct, statsVars, curveVars, interpVars, collectVars>>

RemoveOutliers ==
    /\ pc = "start"
    /\ filtered' = remove_outliers(values)
    /\ pc' = "outliers_done"
    /\ UNCHANGED <<smoothVars, logVars, values, pct, result, curveVars, interpVars, collectVars>>

NextStats == PercentileReturns \/ PercentileRaises \/ RemoveOutliers

SpecStats == InitStats /\ [][NextStats]_vars

(***************************************************************************)
(* The order statistics of a list, stated without sorting it: the k-th     *)
(* (k = 0 for the minimum) is the value with at most k entries below it    *)
(* and more than k entries at or below it.                                 *)
(***************************************************************************)
OrderStat(vals, k) ==
    CHOOSE v \in {vals[i] : i \in DOMAIN vals} :
        /\ Cardinality({i \in DOMAIN vals : vals[i] < v}) <= k
        /\ k < Cardinality({i \in DOMAIN vals : vals[i] <= v})

\* 100 times the interpolated order statistic at rank (n-1) * clamp(p,0,100) / 100.
Quantile100(vals, p) ==
    LET c == IF p < 0 THEN 0 ELSE IF p > 100 THEN 100 ELSE p
        r100 == (Len(vals) - 1) * c
        lo == r100 \div 100
        hi == IF r100 % 100 = 0 THEN lo ELSE lo + 1
    IN  100 * OrderStat(vals, lo)
          + (OrderStat(vals, hi) - OrderStat(vals, lo)) * (r100 - 100 * lo)

\* The entries of vals that satisfy Keep(_), in the order of vals.
KeptInOrder(vals, out, Keep(_)) ==
    LET idx == {i \in DOMAIN vals : Keep(vals[i])}
    IN  /\ Len(out) = Cardinality(idx)
        /\ \A k \in DOMAIN out :
              out[k] = vals[CHOOSE i \in idx : Cardinality({j \in idx : j < i}) = k - 1]

(***************************************************************************)
(* C7: for every non-empty list and every pct, also below 0 or above 100,  *)
(* percentile returns (it raises only on the empty list) the linear        *)
(* interpolation between the floor and ceiling order statistics at rank    *)
(* (n-1) * clamp(pct,0,100) / 100; pct <= 0 gives the minimum, pct >= 100  *)
(* the maximum, and pct = 50 on an odd-length list its middle element.     *)
(***************************************************************************)
C7_PercentileInterpolates ==
    /\ pc = "ValueError" => values = <<>>
    /\ pc = "percentile_done" =>
          LET n == Len(values)
          IN  /\ 100 * result = Quantile100(values, pct)
              /\ pct <= 0 => result = OrderStat(values, 0)
              /\ pct >= 100 => result = OrderStat(values, n - 1)
              /\ (pct = 50 /\ n % 2 = 1) => result = OrderStat(values, (n - 1) \div 2)

C7_Witness ==
    /\ pc = "percentile_done"
    /\ pct > 100
    /\ Len(values) = 4
    /\ values[4] < values[1]
    /\ result = values[1]
    /\ result > values[2]

(***************************************************************************)
(* C8: remove_outliers returns its input unchanged below 4 values;         *)
(* otherwise exactly the input values, in input order, within [Q1, Q3]     *)
(* when IQR <= 0 and within [Q1 - 1.5 IQR, Q3 + 1.5 IQR] when IQR > 0.  It  *)
(* never returns more values than it was given, and one value above        *)
(* b + 1.5 (b - a) among at least 4 others that all lie in [a, b] is       *)
(* excluded.                                                               *)
(***************************************************************************)
C8_OutlierFilter ==
    pc = "outliers_done" =>
        LET n == Len(values)
            Q1 == Quantile100(values, 25)
            Q3 == Quantile100(values, 75)
            IQR == Q3 - Q1
            Central(v) == Q1 <= 100 * v /\ 100 * v <= Q3
            Fenced(v) == /\ 2 * Q1 - 3 * IQR <= 200 * v
                         /\ 200 * v <= 2 * Q3 + 3 * IQR
        IN  /\ n < 4 => filtered = values
            /\ (n >= 4 /\ IQR <= 0) => KeptInOrder(values, filtered, Central)
            /\ (n >= 4 /\ IQR > 0) => KeptInOrder(values, filtered, Fenced)
            /\ Len(filtered) <= n
            /\ \A a \in Speeds, b \in Speeds, i \in DOMAIN values :
                  ( /\ a <= b
                    /\ n >= 5
                    /\ 2 * values[i] > 2 * b + 3 * (b - a)
                    /\ \A j \in DOMAIN values \ {i} : a <= values[j] /\ values[j] <= b )
                  => \A k \in DOMAIN filtered : filtered[k] # values[i]

C8_Witness ==
    /\ pc = "outliers_done"
    /\ values = <<Knot, 0, 3 * Knot, Knot, 0>>
    /\ filtered = <<Knot, 0, Knot, 0>>

(***************************************************************************)
(* Specification SpecCurve: one call of aggregated_curve, stage by stage,  *)
(* on a drawn sample list and configuration.                               *)
(***************************************************************************)
MaxSamples == 4

\* 44.5, 45 and 357 degrees
CurveThetas == {89, 90, 714}

CurveSpeeds == {Knot, 2 * Knot}

BinSizes == {7, 10}

CurvePcts == {50, 130}

MinSamples == {1, 4}

\* The spec's scenario: angles 40, 45, 50 degrees with speeds 6.0, 6.4, 6.2 knots.
ScenarioSamples ==
    <<Sample(radians(40), 6 * Knot),
      Sample(radians(45), (64 * Knot) \div 10),
      Sample(radians(50), (62 * Knot) \div 10)>>

InitCurve ==
    /\ pc = "start"
    /\ samples \in SeqsUpTo({Sample(t, v) : t \in CurveThetas, v \in CurveSpeeds}, MaxSamples)
                      \cup {ScenarioSamples}
    /\ bin_size \in BinSizes
    /\ pct \in CurvePcts
    /\ min_samples \in MinSamples
    /\ bins = EmptyBins
    /\ curve_points = <<>>
    /\ smoothed_points = <<>>
    /\ curve = <<>>
    /\ StatsIdle
    /\ InterpIdle
    /\ SmoothIdle
    /\ LogIdle
    /\ CollectIdle

BucketSamples ==
    /\ pc = "start"
    /\ bins' = bucket_by_angle(samples, bin_size)
    /\ pc' = "bucketed"
    /\ UNCHANGED <<smoothVars, logVars, pct, statsVars, interpVars, collectVars, samples, bin_size, min_samples,
                   curve_points, smoothed_points, curve>>

AggregateBuckets ==
    /\ pc = "bucketed"
    /\ curve_points' = aggregate_buckets(bins, pct, min_samples)
    /\ pc' = "aggregated"
    /\ UNCHANGED <<smoothVars, logVars, pct, statsVars, interpVars, collectVars, samples, bin_size, min_samples,
                   bins, smoothed_points, curve>>

AnchorCurve ==
    /\ pc = "aggregated"
    /\ curve_points' = anchor_curve(curve_points)
    /\ pc' = "anchored"
    /\ UNCHANGED <<smoothVars, logVars, pct, statsVars, interpVars, collectVars, samples, bin_size, min_samples,
                   bins, smoothed_points, curve>>

SmoothAndReturn ==
    /\ pc = "anchored"
    /\ smoothed_points' = smooth_curve(curve_points, DefaultWindow)
    /\ curve' = returned_curve(smoothed_points')
    /\ pc' = "returned"
    /\ UNCHANGED <<smoothVars, logVars, pct, statsVars, interpVars, collectVars, samples, bin_size, min_samples,
                   bins, curve_points>>

NextCurve == BucketSamples \/ AggregateBuckets \/ AnchorCurve \/ SmoothAndReturn

SpecCurve == InitCurve /\ [][NextCurve]_vars

(***************************************************************************)
(* Specification SpecInterp: one call of interpolate_speed on a drawn      *)
(* curve with ascending angles and a drawn target angle.                   *)
(***************************************************************************)
MaxPoints == 3

CurveAngles == {10, 20, 35}

PointSpeeds == {5 * Knot, 6 * Knot}

Targets == -5 .. 50

Ascending(pts) == \A i \in DOMAIN pts, j \in DOMAIN pts : i < j => pts[i][1] <= pts[j][1]

InitInterp ==
    /\ pc = "start"
    /\ points \in {c \in SeqsUpTo(CurveAngles \X PointSpeeds, MaxPoints) : Ascending(c)}
    /\ target \in Targets
    /\ speed = None
    /\ pct = 0
    /\ StatsIdle
    /\ CurveIdle
    /\ CollectIdle
    /\ SmoothIdle
    /\ LogIdle

InterpolateSpeed ==
    /\ pc = "start"
    /\ speed' = interpolate_speed(points, target)
    /\ pc' = "interpolated"
    /\ UNCHANGED <<smoothVars, logVars, pct, statsVars, curveVars, collectVars, points, target>>

NextInterp == InterpolateSpeed

SpecInterp == InitInterp /\ [][NextInterp]_vars

(***************************************************************************)
(* C5: on a non-empty ascending curve interpolate_speed returns no value   *)
(* for a target more than 10 degrees below the first angle or more than    *)
(* 10 degrees above the last, and a value for a target inside the curve    *)
(* or outside it by at most 10 degrees, a gap of exactly 10 included.      *)
(***************************************************************************)
C5_ExtrapolationWithinTenDegrees ==
    (pc = "interpolated" /\ points # <<>>) =>
        LET first_angle == points[1][1]
            last_angle == points[Len(points)][1]
        IN  /\ (target < first_angle - 10 \/ target > last_angle + 10) => speed = None
            /\ (first_angle - 10 <= target /\ target <= last_angle + 10) => speed # None
            /\ (first_angle - 10 <= target /\ target < first_angle) => speed = Some(points[1][2])
            /\ (last_angle < target /\ target <= last_angle + 10)
                  => speed = Some(points[Len(points)][2])

\* A gap of exactly 10 degrees above the last point.
C5_Witness ==
    /\ pc = "interpolated"
    /\ Len(points) = 2
    /\ target = points[2][1] + 10
    /\ speed = Some(points[2][2])
    /\ points[1][2] # points[2][2]

(***************************************************************************)
(* C6.  The scenario: the curve [(10, 5.0), (20, 6.0)] queried at angle 5. *)
(***************************************************************************)
ScenarioCurve == <<<<10, 5 * Knot>>, <<20, 6 * Knot>>>>

\* C6 as stated: the query at angle 5 returns "no value".
C6_Original_NoValueAtFive ==
    (pc = "interpolated" /\ points = ScenarioCurve /\ target = 5) => speed = None

\* C6 as amended: the query at angle 5 returns 5.0, the first point's speed (the gap
\* of 5 degrees is within the tolerance); "no value" starts below angle 0.
C6_FirstSpeedAtFive ==
    (pc = "interpolated" /\ points = ScenarioCurve) =>
        /\ target = 5 => speed = Some(5 * Knot)
        /\ target = 0 => speed = Some(5 * Knot)
        /\ target < 0 => speed = None

C6_Witness ==
    /\ pc = "interpolated"
    /\ points = ScenarioCurve
    /\ target = 5
    /\ speed # None

(***************************************************************************)
(* Specification SpecCollect: main().  collect_sailing_samples reads the   *)
(* points of the log one by one (any entry of Entries may come next, at    *)
(* most MaxEntries of them), then make_plot builds the curve of every band *)
(* or exits when no band has a sample.  The image and the table make_plot  *)
(* writes are not modelled.                                                *)
(***************************************************************************)
MaxEntries == 3

\* An entry that passes every test: wind 5.0 kn from 160 degrees off the course,
\* sog 4.0 kn (exactly 0.8 times the wind speed), stw 5.0 kn.
GoodEntry ==
    [missing |-> {}, since_start |-> exclusion_seconds, until_end |-> exclusion_seconds,
     stw |-> 5 * Knot, sog |-> 4 * Knot, wind_speed |-> 5 * Knot,
     wind_dir |-> 200, course |-> 0]

WindSpeeds == {0, (24 * Knot) \div 10, (25 * Knot) \div 10, 5 * Knot, (175 * Knot) \div 10}

Entries ==
    {[GoodEntry EXCEPT !.wind_speed = w, !.sog = g, !.wind_dir = d] :
        w \in WindSpeeds, g \in {Knot, 4 * Knot}, d \in {29, 30, 180, 200}}
    \cup {[GoodEntry EXCEPT !.course = 350, !.wind_dir = d] : d \in {10, 20}}
    \cup {[GoodEntry EXCEPT !.missing = {f}] :
            f \in {"startTime", "endTime", "datetime", "stw", "sog", "wind_speed", "wind_dir", "course"}}
    \cup {[GoodEntry EXCEPT !.since_start = a, !.until_end = b] :
            a \in {exclusion_seconds - 1, exclusion_seconds},
            b \in {exclusion_seconds - 1, exclusion_seconds}}

InitCollect ==
    /\ pc = "collecting"
    /\ entry = NoEntry
    /\ n_points = 0
    /\ samples_by_band = [l \in Labels |-> <<>>]
    /\ band_curves = NoCurves
    /\ bin_size = 10
    /\ pct = 80
    /\ min_samples \in {1, 3}
    /\ samples = <<>>
    /\ bins = EmptyBins
    /\ curve_points = <<>>
    /\ smoothed_points = <<>>
    /\ curve = <<>>
    /\ StatsIdle
    /\ InterpIdle
    /\ SmoothIdle
    /\ LogIdle

CollectPoint ==
    /\ pc = "collecting"
    /\ n_points < MaxEntries
    /\ \E e \in Entries :
          /\ entry' = e
          /\ samples_by_band' = collect_point(samples_by_band, e)
    /\ n_points' = n_points + 1
    /\ UNCHANGED <<smoothVars, logVars, pc, pct, statsVars, curveVars, interpVars, band_curves>>

total_samples == SumSeq([i \in DOMAIN WIND_BINS |-> Len(samples_by_band[WIND_BINS[i].label])])

MakePlotExits ==
    /\ pc = "collecting"
    /\ total_samples = 0
    /\ pc' = "SystemExit"
    /\ UNCHANGED <<smoothVars, logVars, pct, statsVars, curveVars, interpVars, collectVars>>

MakePlot ==
    /\ pc = "collecting"
    /\ total_samples # 0
    /\ band_curves' =
          [l \in Labels |-> band_curve(samples_by_band[l], bin_size, pct, min_samples)]
    /\ pc' = "plotted"
    /\ UNCHANGED <<smoothVars, logVars, pct, statsVars, curveVars, interpVars, entry, n_points, samples_by_band>>

NextCollect == CollectPoint \/ MakePlotExits \/ MakePlot

SpecCollect == InitCollect /\ [][NextCollect]_vars

(***************************************************************************)
(* The filters and the expected samples of an entry, stated from the log   *)
(* entry alone: the band by its interval, the normalized angle as the      *)
(* smaller of the two arcs between course and wind direction.              *)
(***************************************************************************)
BandsContaining(w) ==
    {l \in Labels :
        \/ l = "2.5-7.5 kn" /\ 25 * Knot <= 10 * w /\ 10 * w < 75 * Knot
        \/ l = "7.5-12.5 kn" /\ 75 * Knot <= 10 * w /\ 10 * w < 125 * Knot
        \/ l = "12.5-17.5 kn" /\ 125 * Knot <= 10 * w /\ 10 * w < 175 * Knot
        \/ l = ">17.5 kn" /\ 175 * Knot <= 10 * w}

NormalizedAngle(e) ==
    LET d == (e.wind_dir - e.course) % 360 IN Min(d, 360 - d)

PassesFilters(e) ==
    /\ e.wind_speed > 0
    /\ 10 * e.sog <= 8 * e.wind_speed
    /\ BandsContaining(e.wind_speed) # {}
    /\ NormalizedAngle(e) >= 30

InsideVoyageWithAllFields(e) ==
    /\ e.missing = {}
    /\ e.since_start >= 3600
    /\ e.until_end >= 3600

ExpectedSamples(e) ==
    LET a == NormalizedAngle(e)
        m == (360 - a) % 360
    IN  IF 0 < a /\ a < 180 /\ m <= 330
        THEN <<[theta |-> radians(a), stw |-> e.stw], [theta |-> radians(m), stw |-> e.stw]>>
        ELSE <<[theta |-> radians(a), stw |-> e.stw]>>

AddsExpectedSamples(e) ==
    \E l \in BandsContaining(e.wind_speed) :
        samples_by_band' = [samples_by_band EXCEPT ![l] = @ \o ExpectedSamples(e)]

(***************************************************************************)
(* C10 as stated: every entry read that passes the four filters (wind      *)
(* speed > 0, sog <= 0.8 * wind speed, wind speed in a band, normalized    *)
(* angle >= 30) adds its sample and, when 0 < a < 180 and the mirrored     *)
(* angle is <= 330, the mirrored duplicate; any other entry adds nothing.  *)
(* Violated: an entry less than an hour from its voyage's start or end, or *)
(* with a missing field, passes the four filters and adds no sample.       *)
(***************************************************************************)
C10_Original_FourFiltersOnly ==
    [][n_points' = n_points + 1 =>
          IF PassesFilters(entry')
          THEN AddsExpectedSamples(entry')
          ELSE samples_by_band' = samples_by_band]_vars

(***************************************************************************)
(* C10, amended: an entry read that has all its fields, lies at least an   *)
(* hour after its voyage's start and at least an hour before its end, and  *)
(* passes the four filters adds one sample at angle a to its band and the  *)
(* mirrored duplicate at (360 - a) mod 360 with the same speed exactly     *)
(* when 0 < a < 180 and the mirrored angle is <= 330; every other entry    *)
(* adds no sample to any band.                                             *)
(***************************************************************************)
C10_FilteredEntryAddsSamples ==
    [][n_points' = n_points + 1 =>
          IF InsideVoyageWithAllFields(entry') /\ PassesFilters(entry')
          THEN AddsExpectedSamples(entry')
          ELSE samples_by_band' = samples_by_band]_vars

\* Three entries read: one at 160 degrees (mirrored at 200), one dead downwind at
\* 180 degrees (never mirrored) and one rejected, leaving three samples in the band.
C10_Witness ==
    /\ n_points = 3
    /\ ~PassesFilters(entry)
    /\ samples_by_band["2.5-7.5 kn"] =
          <<Sample(radians(160), 5 * Knot), Sample(radians(200), 5 * Knot),
            Sample(radians(180), 5 * Knot)>>

(***************************************************************************)
(* C2 as stated: a band without samples gets the zero curve                *)
(* [(0,0),(360,0)] and the run does not fail.  Violated: make_plot gives   *)
(* an empty band the empty curve, and exits when every band is empty.      *)
(***************************************************************************)
C2_Original_ZeroCurvePerEmptyBand ==
    /\ pc # "SystemExit"
    /\ pc = "plotted" =>
          \A l \in Labels :
              samples_by_band[l] = <<>> => band_curves[l] = returned_curve(ZeroCurve)

(***************************************************************************)
(* C2, amended: aggregated_curve returns the zero curve [(0,0),(360,0)]    *)
(* for an empty sample list and does not fail; make_plot does not call it  *)
(* for an empty band, which gets the empty curve ([], []) when some other  *)
(* band has samples, and make_plot exits (SystemExit) exactly when every   *)
(* band is empty.                                                          *)
(***************************************************************************)
C2_EmptyBandGetsEmptyCurve ==
    /\ aggregated_curve(<<>>, bin_size, pct, min_samples) = <<<<radians(0), radians(360)>>, <<0, 0>>>>
    /\ pc = "plotted" =>
          /\ \E l \in Labels : samples_by_band[l] # <<>>
          /\ \A l \in Labels :
                band_curves[l] =
                    IF samples_by_band[l] = <<>> THEN <<<<>>, <<>>>>
                    ELSE aggregated_curve(samples_by_band[l], bin_size, pct, min_samples)
    /\ pc = "SystemExit" => \A l \in Labels : samples_by_band[l] = <<>>

C2_Witness ==
    /\ pc = "plotted"
    /\ samples_by_band[">17.5 kn"] = <<>>
    /\ band_curves[">17.5 kn"] = <<<<>>, <<>>>>
    /\ Len(band_curves["2.5-7.5 kn"][1]) > 2

(***************************************************************************)
(* Specification SpecLog: main() of merge_course_changes.py.  The log that *)
(* was loaded is any list of at most MaxLog entries of LogEntries; with    *)
(* --fix-maxima-pos main first calls fix_maxima_positions, which changes   *)
(* the list in place, and then merge_entries.  Reading and writing the     *)
(* YAML files is not modelled.                                             *)
(***************************************************************************)
MaxLog == 3

Position(lon, lat) == Some([longitude |-> Some(lon), latitude |-> Some(lat), source |-> None])

Sog(v) == Some([sog |-> Some(v)])

EmptyEntry ==
    [text |-> [kind |-> "none", from |-> 0, to |-> 0], position |-> None, speed |-> None,
     maxSpeed |-> None, maxWind |-> None, maxHeel |-> None, wind |-> None]

CourseChange(from, to) ==
    [EmptyEntry EXCEPT !.text = [kind |-> "course", from |-> from, to |-> to],
                       !.position = Position(10, 50), !.speed = Sog(5 * Knot)]

Note(kind) == [EmptyEntry EXCEPT !.text = [kind |-> kind, from |-> 0, to |-> 0]]

LogEntries ==
    { CourseChange(90 * Deg, 100 * Deg),
      [CourseChange(90 * Deg, 120 * Deg) EXCEPT
          !.position = Position(11, 51), !.maxSpeed = Some(6 * Knot),
          !.wind = Some([speed |-> Some(10 * Knot), direction |-> Some(<<40>>)])],
      [CourseChange(90 * Deg, 110 * Deg) EXCEPT
          !.position = None, !.speed = None, !.maxWind = Some(20 * Knot),
          !.wind = Some([speed |-> Some(20 * Knot), direction |-> None])],
      [CourseChange(90 * Deg, 130 * Deg) EXCEPT !.speed = Sog((3 * Knot) \div 10)],
      [CourseChange(100 * Deg, 90 * Deg) EXCEPT !.speed = Sog((3 * Knot) \div 10)],
      [CourseChange(100 * Deg, 80 * Deg) EXCEPT !.speed = Sog(LowSpeed)],
      CourseChange(1234567, 200 * Deg),
      CourseChange(1234570, 10 * Deg),
      [Note("other") EXCEPT
          !.position = Some([longitude |-> Some(12), latitude |-> Some(52), source |-> Some("GPS")]),
          !.speed = Sog((3 * Knot) \div 10)],
      [Note("other") EXCEPT !.position = Position(0, 0)],
      [Note("other") EXCEPT !.position = Position(200, 10)],
      [Note("max wind") EXCEPT !.position = Position(13, 53)],
      [Note("max wind") EXCEPT
          !.position = Some([longitude |-> Some(10), latitude |-> None, source |-> None])],
      [Note("other") EXCEPT !.maxHeel = Some(30), !.position = Position(0, 0)],
      EmptyEntry }

InitLog ==
    /\ pc = "loaded"
    /\ log_data \in SeqsUpTo(LogEntries, MaxLog)
    /\ merge_result = <<>>
    /\ pct = 0
    /\ StatsIdle
    /\ CurveIdle
    /\ InterpIdle
    /\ CollectIdle
    /\ SmoothIdle

FixMaximaPositions ==
    /\ pc = "loaded"
    /\ log_data' = fix_maxima_positions(log_data)
    /\ pc' = "fixed"
    /\ UNCHANGED <<pct, statsVars, curveVars, interpVars, collectVars, smoothVars, merge_result>>

MergeEntries ==
    /\ pc \in {"loaded", "fixed"}
    /\ merge_result' = merge_entries(log_data)
    /\ log_data' = entries_after_merge(log_data, 1)
    /\ pc' = "merged"
    /\ UNCHANGED <<pct, statsVars, curveVars, interpVars, collectVars, smoothVars>>

NextLog == FixMaximaPositions \/ MergeEntries

SpecLog == InitLog /\ [][NextLog]_vars

(***************************************************************************)
(* Runs of course changes, stated on the list alone: a block is a maximal  *)
(* interval a..b of successive course changes with the same starting       *)
(* course, or a single entry that is not a course change.                  *)
(***************************************************************************)
IsCourseChange(e) == e.text.kind = "course"

SameStart(es, a, b) ==
    \A k \in a .. b : IsCourseChange(es[k]) /\ es[k].text.from = es[a].text.from

IsBlock(es, a, b) ==
    /\ a \in DOMAIN es /\ b \in DOMAIN es /\ a <= b
    /\ IF IsCourseChange(es[a])
       THEN /\ SameStart(es, a, b)
            /\ a = 1 \/ ~SameStart(es, a - 1, b)
            /\ b = Len(es) \/ ~SameStart(es, a, b + 1)
       ELSE a = b

Blocks(es) == {ab \in (DOMAIN es) \X (DOMAIN es) : IsBlock(es, ab[1], ab[2])}

\* the i-th of a set of disjoint blocks, in the order of the list
NthBlock(blocks, i) ==
    CHOOSE ab \in blocks : Cardinality({cd \in blocks : cd[1] < ab[1]}) = i - 1

HasValue(es, a, b, Field(_)) == {k \in a .. b : Field(es[k]) # None}

IsMaximum(opt, es, a, b, Field(_)) ==
    IF HasValue(es, a, b, Field) = {} THEN opt = None
    ELSE /\ opt # None
         /\ \E k \in HasValue(es, a, b, Field) : opt = Field(es[k])
         /\ \A k \in HasValue(es, a, b, Field) : Field(es[k])[1] <= opt[1]

WindSpeedOf(e) == IF e.wind = None THEN None ELSE e.wind[1].speed

RECURSIVE WindSpeedSum(_, _)
WindSpeedSum(es, S) ==
    IF S = {} THEN 0
    ELSE LET k == CHOOSE x \in S : TRUE
         IN  WindSpeedOf(es[k])[1] + WindSpeedSum(es, S \ {k})

IsMeanWindSpeed(r, es, a, b) ==
    LET have == HasValue(es, a, b, WindSpeedOf)
    IN  have # {} =>
            /\ WindSpeedOf(r) # None
            /\ WindSpeedOf(r)[1] * Cardinality(have)
                 = WindSpeedSum(es, have)

MaxSpeedOf(e) == e.maxSpeed

MaxWindOf(e) == e.maxWind

\* r stands for the block a..b as C11 states it
StandsForAsStated(r, es, a, b) ==
    IF a = b THEN r = es[a]
    ELSE /\ r.text = [kind |-> "course", from |-> es[a].text.from, to |-> es[b].text.to]
         /\ r.position = es[b].position
         /\ IsMaximum(r.maxSpeed, es, a, b, MaxSpeedOf)
         /\ IsMaximum(r.maxWind, es, a, b, MaxWindOf)
         /\ IsMeanWindSpeed(r, es, a, b)

\* r stands for the block a..b as the code builds it
StandsFor(r, es, a, b) ==
    IF a = b THEN r = es[a]
    ELSE /\ r.text = [kind |-> "course", from |-> format_g(es[a].text.from),
                      to |-> format_g(es[b].text.to)]
         /\ r.position = IF es[b].position # None THEN es[b].position ELSE es[a].position
         /\ r.speed = IF es[b].speed # None THEN es[b].speed ELSE es[a].speed
         /\ IsMaximum(r.maxSpeed, es, a, b, MaxSpeedOf)
         /\ IsMaximum(r.maxWind, es, a, b, MaxWindOf)
         /\ IsMeanWindSpeed(r, es, a, b)

\* the entry of a block is removed: a course change under way at less than 0.6 kn
BlockRemoved(es, a, b) ==
    LET sp == IF es[b].speed # None THEN es[b].speed ELSE es[a].speed
    IN  /\ IsCourseChange(es[a])
        /\ sp # None /\ sp[1].sog # None
        /\ 10 * sp[1].sog[1] < 6 * Knot

(***************************************************************************)
(* C11 as stated: the list merge_entries returns has one entry per block   *)
(* of its input, in order: the entry itself for a block of one, and for a  *)
(* run of two or more the entry with the run's starting course and last    *)
(* to-course in its text, the last entry's position, the maxima of         *)
(* maxSpeed and maxWind and the mean wind speed.  Violated: a course       *)
(* change with sog below 0.6 kn, merged or not, is removed from the list.  *)
(***************************************************************************)
C11_Original_OneEntryPerRun ==
    [][pc' = "merged" =>
          /\ Len(merge_result') = Cardinality(Blocks(log_data))
          /\ \A i \in DOMAIN merge_result' :
                LET ab == NthBlock(Blocks(log_data), i)
                IN  StandsForAsStated(merge_result'[i], log_data, ab[1], ab[2])]_vars

(***************************************************************************)
(* C11, amended: every maximal run of two or more successive course        *)
(* changes with the same starting course is merged into one entry: its     *)
(* text holds the starting course and the last entry's to-course, both     *)
(* printed with six significant digits; its position and speed are the     *)
(* last entry's (the first entry's where the last has none); its maxSpeed  *)
(* and maxWind are the maxima, and its wind speed the mean, over the       *)
(* entries of the run that have the value.  Course changes, merged or not, *)
(* with sog below 0.6 kn are then removed, and what remains keeps the      *)
(* order of the input.                                                     *)
(***************************************************************************)
C11_RunsMergedThenLowSpeedRemoved ==
    [][pc' = "merged" =>
          LET kept == {ab \in Blocks(log_data) : ~BlockRemoved(log_data, ab[1], ab[2])}
          IN  /\ Len(merge_result') = Cardinality(kept)
              /\ \A i \in DOMAIN merge_result' :
                    LET ab == NthBlock(kept, i)
                    IN  StandsFor(merge_result'[i], log_data, ab[1], ab[2])]_vars

\* A run of three (to 100, to 110 without position, to 120) merged into one entry.
C11_Witness ==
    /\ pc = "merged"
    /\ Len(log_data) = 3
    /\ \A k \in 1 .. 3 : log_data[k].text.from = 90 * Deg
    /\ <<log_data[1].text.to, log_data[2].text.to, log_data[3].text.to>>
         = <<100 * Deg, 110 * Deg, 120 * Deg>>
    /\ Len(merge_result) = 1
    /\ merge_result[1].text = [kind |-> "course", from |-> 90 * Deg, to |-> 120 * Deg]
    /\ merge_result[1].position = Position(11, 51)
    /\ merge_result[1].maxSpeed = Some(6 * Knot)
    /\ merge_result[1].maxWind = Some(20 * Knot)
    /\ merge_result[1].wind[1].speed = Some(15 * Knot)

MaxCurveLen == 5

Windows == {-1, 0, 1, 2, 3}

SmoothSpeeds == {Knot, 2 * Knot, 4 * Knot}

SmoothCurves ==
    {[i \in DOMAIN s |-> <<IF up THEN 15 * i ELSE 360 - 15 * i, s[i]>>] :
        s \in SeqsUpTo(SmoothSpeeds, MaxCurveLen), up \in BOOLEAN}

InitSmooth ==
    /\ pc = "start"
    /\ points \in SmoothCurves
    /\ window_arg \in Windows
    /\ smooth_result = <<>>
    /\ target = 0
    /\ speed = None
    /\ pct = 0
    /\ StatsIdle
    /\ CurveIdle
    /\ CollectIdle
    /\ LogIdle

SmoothCurve ==
    /\ pc = "start"
    /\ smooth_result' = smooth_curve(points, window_arg)
    /\ pc' = "smoothed"
    /\ UNCHANGED <<pct, statsVars, curveVars, interpVars, collectVars, logVars, window_arg>>

NextSmooth == SmoothCurve

SpecSmooth == InitSmooth /\ [][NextSmooth]_vars

RECURSIVE SpeedSum(_, _, _)
SpeedSum(pts, lo, hi) == IF lo > hi THEN 0 ELSE pts[lo + 1][2] + SpeedSum(pts, lo + 1, hi)

(***************************************************************************)
(* C13: with window w > 0 and n > 3 points smooth_curve returns n points   *)
(* with the angles of the input in the same order; the first and the last  *)
(* point keep their speeds and every interior point i gets the mean of the *)
(* input's speeds at indices max(0, i-w) .. min(n-1, i+w).  With n <= 3 or *)
(* w <= 0 it returns the curve unchanged.                                  *)
(***************************************************************************)
C13_SmoothCurveWindowMean ==
    pc = "smoothed" =>
        LET n == Len(points)
            w == window_arg
        IN  IF n <= 3 \/ w <= 0 THEN smooth_result = points
            ELSE /\ Len(smooth_result) = n
                 /\ \A i \in 0 .. n - 1 :
                       LET lo == Max(0, i - w)
                           hi == Min(n - 1, i + w)
                       IN  /\ smooth_result[i + 1][1] = points[i + 1][1]
                           /\ IF i = 0 \/ i = n - 1
                              THEN smooth_result[i + 1][2] = points[i + 1][2]
                              ELSE smooth_result[i + 1][2] * (hi - lo + 1)
                                     = SpeedSum(points, lo, hi)

\* Five points, window 1: the second point's speed 4 becomes (1 + 4 + 1) / 3 = 2 and
\* the fourth's (1 + 4 + 4) / 3 = 3, from the input's speeds, not the smoothed ones.
C13_Witness ==
    /\ pc = "smoothed"
    /\ window_arg = 1
    /\ points = <<<<15, Knot>>, <<30, 4 * Knot>>, <<45, Knot>>, <<60, 4 * Knot>>, <<75, 4 * Knot>>>>
    /\ smooth_result =
          <<<<15, Knot>>, <<30, 2 * Knot>>, <<45, 3 * Knot>>, <<60, 3 * Knot>>, <<75, 4 * Knot>>>>

(***************************************************************************)
(* C14: the list merge_entries returns holds no two adjacent course        *)
(* changes with the same starting course, and merge_entries applied to it  *)
(* returns it unchanged, also when a course change with sog below 0.6 kn   *)
(* was removed from between two other entries.  Violated: the removal      *)
(* comes after the merging, and the two neighbours of a removed entry are  *)
(* not merged.                                                             *)
(***************************************************************************)
C14_MergeEntriesIdempotent ==
    pc = "merged" =>
        /\ \A i \in 1 .. Len(merge_result) - 1 :
              ~(/\ IsCourseChange(merge_result[i])
                /\ IsCourseChange(merge_result[i + 1])
                /\ merge_result[i].text.from = merge_result[i + 1].text.from)
        /\ merge_entries(merge_result) = merge_result

(***************************************************************************)
(* C1: the curve aggregated_curve returns is strictly ascending by angle,  *)
(* starts at angle 0 with speed 0 and ends at angle 360 with speed 0, for  *)
(* every sample list, bin size, pct and min_samples; smoothing leaves the  *)
(* two anchors at their forced values.                                     *)
(***************************************************************************)
C1_CurveAnchoredAscending ==
    /\ pc = "anchored" =>
          /\ curve_points[1] = <<0, 0>>
          /\ curve_points[Len(curve_points)] = <<360, 0>>
    /\ pc = "returned" =>
          LET angles == curve[1]
              speeds == curve[2]
              n == Len(angles)
          IN  /\ n >= 2
              /\ Len(speeds) = n
              /\ \A i \in 1 .. n, j \in 1 .. n : i < j => angles[i] < angles[j]
              /\ angles[1] = radians(0) /\ speeds[1] = 0
              /\ angles[n] = radians(360) /\ speeds[n] = 0
              /\ smoothed_points[1] = curve_points[1]
              /\ smoothed_points[n] = curve_points[n]

\* A bucket at center 0 with non-zero speeds, and a curve long enough to be smoothed.
C1_Witness ==
    /\ pc = "returned"
    /\ 0 \in DOMAIN bins
    /\ Len(bins[0]) >= min_samples
    /\ Len(smoothed_points) > 3
    /\ smoothed_points # curve_points
    /\ curve[2][1] = 0

(***************************************************************************)
(* C3.  FiledBy(Key): bucket_by_angle has filed every sample under the     *)
(* key Key gives for its theta, the speeds of a bucket in sample order.    *)
(***************************************************************************)
FiledBy(Key(_)) ==
    /\ DOMAIN bins = {Key(samples[i].theta) : i \in DOMAIN samples}
    /\ \A k \in DOMAIN bins :
          LET idx == {i \in DOMAIN samples : Key(samples[i].theta) = k}
          IN  /\ Len(bins[k]) = Cardinality(idx)
              /\ \A n \in DOMAIN bins[k] :
                    bins[k][n] =
                      samples[CHOOSE i \in idx : Cardinality({j \in idx : j < i}) = n - 1].stw

\* floor((a + binSize/2) / binSize) * binSize mod 360, for theta = 2a.
FloorThenWrapKey(theta) == (((theta + bin_size) \div (2 * bin_size)) * bin_size) % 360

\* C3 as stated: the key is floor((a + binSize/2) / binSize) * binSize mod 360 for
\* every positive binSize, whether or not it divides 360.
C3_Original_KeyForEveryBinSize ==
    pc = "bucketed" => FiledBy(FloorThenWrapKey)

\* C3 as amended: the key is floor((a + binSize/2) / binSize) * binSize mod 360 when
\* binSize divides 360; for every binSize the key is a multiple of binSize in [0, 360).
C3_KeyWhenBinSizeDivides360 ==
    pc = "bucketed" =>
        /\ 360 % bin_size = 0 => FiledBy(FloorThenWrapKey)
        /\ \A k \in DOMAIN bins : k % bin_size = 0 /\ 0 <= k /\ k < 360
        /\ \A i \in DOMAIN samples : \E k \in DOMAIN bins : \E n \in DOMAIN bins[k] :
              bins[k][n] = samples[i].stw

\* 357 degrees wraps to bucket 0 and 45 degrees rounds up to bucket 50.
C3_Witness ==
    /\ pc = "bucketed"
    /\ bin_size = 10
    /\ \E i \in DOMAIN samples : samples[i].theta = radians(357)
    /\ \E i \in DOMAIN samples : samples[i].theta = radians(45)
    /\ DOMAIN bins = {0, 50}

(***************************************************************************)
(* C4.  The scenario: samples at 40, 45 and 50 degrees with speeds 6.0,    *)
(* 6.4 and 6.2, binSize 10, minSamples 1, percentile 50.                   *)
(***************************************************************************)
Scenario ==
    /\ samples = ScenarioSamples
    /\ bin_size = 10
    /\ min_samples = 1
    /\ pct = 50

\* C4 as stated: the three samples fall into the single bucket 40, whose aggregated
\* speed is their median 6.2.
C4_Original_SingleBucket ==
    (Scenario /\ pc = "aggregated") =>
        /\ DOMAIN bins = {40}
        /\ curve_points = <<<<40, (62 * Knot) \div 10>>>>

\* C4 as amended: they fall into two buckets, 40 holding 6.0 and 50 holding 6.4 and
\* 6.2, whose aggregated speeds are 6.0 and 6.3.
C4_TwoBuckets ==
    (Scenario /\ pc = "aggregated") =>
        /\ DOMAIN bins = {40, 50}
        /\ bins[40] = <<6 * Knot>>
        /\ bins[50] = <<(64 * Knot) \div 10, (62 * Knot) \div 10>>
        /\ curve_points = <<<<40, 6 * Knot>>, <<50, (63 * Knot) \div 10>>>>

C4_Witness ==
    /\ Scenario
    /\ pc = "aggregated"
    /\ Len(curve_points) = 2

(***************************************************************************)
(* C9: a bucket contributes a curve point at its center angle exactly when *)
(* at least min_samples of its values remain after outlier removal; a      *)
(* bucket below that count contributes no point at all.                    *)
(***************************************************************************)
Qualifies(k) == Len(remove_outliers(bins[k])) >= min_samples

====
